---- MODULE Spec2Model ----
(***************************************************************************)
(* Batch image upload to a wiki: the run controller (main), the progress   *)
(* tracker (RunState file), the upload log (dedup ledger) and the          *)
(* bounded-concurrency upload queue, as one state machine over several     *)
(* invocations of the tool on the same disk.                               *)
(*                                                                         *)
(* Text is a sequence of one-character strings; the status words of the    *)
(* log, the timestamp and an error message are single symbols.  null is    *)
(* the empty sequence None, a present value x is Some(x).                   *)
(***************************************************************************)
EXTENDS Integers, Sequences, FiniteSets, TLC

\* ---------------------------------------------------------------- bounds
MaxFiles == 3
MaxConc == 2
MaxRuns == 2

\* the retries parameter's default of uploadSingleImage, handed on to editFilePage
Retries == 3

None == << >>
Some(x) == <<x>>

Min2(a, b) == IF a <= b THEN a ELSE b
Max2(a, b) == IF a >= b THEN a ELSE b

\* ------------------------------------------------------------------ text
WS == {" ", "\t"}

RECURSIVE TrimLeft(_)
TrimLeft(s) == IF s # << >> /\ Head(s) \in WS THEN TrimLeft(Tail(s)) ELSE s

RECURSIVE TrimRight(_)
TrimRight(s) ==
  IF s # << >> /\ s[Len(s)] \in WS THEN TrimRight(SubSeq(s, 1, Len(s) - 1)) ELSE s

\* String.prototype.trim
Trim(s) == TrimRight(TrimLeft(s))

\* Array.prototype.includes
Includes(seq, x) == \E i \in 1..Len(seq) : seq[i] = x

\* Array.prototype.indexOf / findIndex, 1-based; 0 stands for -1
IndexWhere(seq, Test(_)) ==
  IF \E i \in 1..Len(seq) : Test(seq[i])
  THEN CHOOSE i \in 1..Len(seq) : Test(seq[i]) /\ \A j \in 1..(i - 1) : ~Test(seq[j])
  ELSE 0

IndexOf(seq, x) == IndexWhere(seq, LAMBDA y : y = x)

\* Array.prototype.splice(idx, 1)
Splice(seq, i) == SubSeq(seq, 1, i - 1) \o SubSeq(seq, i + 1, Len(seq))

Range(seq) == {seq[i] : i \in 1..Len(seq)}

\* ----------------------------------------------------------- source tree
\* Relative paths of image files the source directory may hold.  Three of
\* them differ only in where the directory separator stands.
PathABC == <<"a", "/", "b", "/", "c">>
PathAB_C == <<"a", "/", "b", "-", "c">>
PathA_BC == <<"a", "-", "b", "/", "c">>
PathD == <<"d">>

\* the order in which walk() meets them (directory a before a-b before d)
WalkOrder == <<PathABC, PathAB_C, PathA_BC, PathD>>
Paths == Range(WalkOrder)

collectImages(sourceTree) == SelectSeq(WalkOrder, LAMBDA p : p \in sourceTree)

transformPath(relativePath) ==
  [i \in 1..Len(relativePath) |->
     IF relativePath[i] = "/" THEN "-" ELSE relativePath[i]]

MapSeq(seq, F(_)) == [i \in 1..Len(seq) |-> F(seq[i])]

\* the keys of pathMap built by processUploadQueue
PathMapKeys(sourceTree) == {transformPath(p) : p \in sourceTree}

Names == {transformPath(p) : p \in Paths}

\* ------------------------------------------------------------ upload log
wikiPrefix == <<"w">>

SuccessLine(targetName, prefix) ==
  <<"[", "T", "]", " ", "SUCCESS", " ">> \o targetName \o <<" ", "-", ">", " ">> \o prefix

\* `[${timestamp}] FAILED  ${targetName} (${error})` for an error given as text
FailedText(targetName, reason) ==
  <<"[", "T", "]", " ", "FAILED", " ", " ">> \o targetName \o <<" ", "(">> \o reason
    \o <<")">>

FailedLine(targetName, error) == FailedText(targetName, <<error>>)

\* last position of the run of whitespace that starts at i (i - 1: no run)
RECURSIVE WsRunEnd(_, _)
WsRunEnd(line, i) ==
  IF i <= Len(line) /\ line[i] \in WS THEN WsRunEnd(line, i + 1) ELSE i - 1

\* /^\[.*?\]\s+SUCCESS\s+(.+)$/ with the "]" taken at position k
MatchesAt(line, k) ==
  LET s == WsRunEnd(line, k + 1) + 1
  IN /\ line[k] = "]"
     /\ s >= k + 2
     /\ s <= Len(line)
     /\ line[s] = "SUCCESS"
     /\ s + 2 <= Len(line)
     /\ line[s + 1] \in WS

\* the group (.+): what follows the greedy \s+, which gives back one
\* character when it ran to the end of the line
CaptureAt(line, k) ==
  LET s == WsRunEnd(line, k + 1) + 1
      m == WsRunEnd(line, s + 1)
  IN IF m < Len(line) THEN SubSeq(line, m + 1, Len(line))
     ELSE SubSeq(line, Len(line), Len(line))

\* line.match(...): None, or Some(match[1])
MatchSuccess(line) ==
  LET ks == {k \in 2..Len(line) : line[1] = "[" /\ MatchesAt(line, k)}
  IN IF ks = {} THEN None
     ELSE Some(CaptureAt(line, CHOOSE k \in ks : \A k2 \in ks : k <= k2))

\* UploadLog.load: the set rebuilt from the log file's lines
UploadLogLoad(file) ==
  {Trim(MatchSuccess(file[i])[1]) :
     i \in {j \in 1..Len(file) : Trim(file[j]) # << >> /\ MatchSuccess(file[j]) # None}}

\* ------------------------------------------------------ progress tracker
\* ProgressTracker.init: the RunState of a new task
TrackerInit(fileList) ==
  [totalFiles |-> Len(fileList), pendingFiles |-> fileList,
   completed |-> << >>, failed |-> << >>]

\* ProgressTracker.markCompleted on the RunState d
MarkCompleted(d, targetName) ==
  LET idx == IndexOf(d.pendingFiles, targetName)
      failedIdx == IndexWhere(d.failed, LAMBDA f : f.file = targetName)
  IN [d EXCEPT
        !.pendingFiles = IF idx # 0 THEN Splice(@, idx) ELSE @,
        !.completed = IF Includes(@, targetName) THEN @ ELSE Append(@, targetName),
        !.failed = IF failedIdx # 0 THEN Splice(@, failedIdx) ELSE @]

\* a markFailed that takes the name out of pendingFiles and stores no entry
MarkFailedForgets(d, targetName, error, attempts) ==
  LET idx == IndexOf(d.pendingFiles, targetName)
  IN [d EXCEPT !.pendingFiles = IF idx # 0 THEN Splice(@, idx) ELSE @]

\* ProgressTracker.markFailed on the RunState d
MarkFailed(d, targetName, error, attempts) ==
  LET idx == IndexOf(d.pendingFiles, targetName)
      existing == IndexWhere(d.failed, LAMBDA f : f.file = targetName)
      entry == [file |-> targetName, error |-> error, attempts |-> attempts]
  IN [d EXCEPT
        !.pendingFiles = IF idx # 0 THEN Splice(@, idx) ELSE @,
        !.failed = IF existing # 0 THEN [@ EXCEPT ![existing] = entry]
                   ELSE Append(@, entry)]

\* ProgressTracker.getFailedFiles
GetFailedFiles(d) == MapSeq(d.failed, LAMBDA f : f.file)

\* ------------------------------------------------------------ concurrency
\* normalizeConcurrency: None stands for a value that is not a finite number
normalizeConcurrency(value) ==
  IF value = None THEN None ELSE Some(Max2(1, value[1]))

\* resolveConcurrency of the tool, and maxConcurrency of processUploadQueue
resolveConcurrency(requestedConcurrency, configValue) ==
  LET normalizedRequested == normalizeConcurrency(requestedConcurrency)
      configMax == normalizeConcurrency(configValue)
  IN IF normalizedRequested # None
     THEN IF configMax # None THEN Min2(normalizedRequested[1], configMax[1])
          ELSE normalizedRequested[1]
     ELSE IF configMax # None THEN configMax[1] ELSE 1

\* main resolves options.concurrency, processUploadQueue resolves it again
maxConcurrencyOf(requestedConcurrency, configValue) ==
  resolveConcurrency(Some(resolveConcurrency(requestedConcurrency, configValue)),
                     configValue)

\* a worker count that leaves the number of items out
WorkerCountNoCap(maxConcurrency, fileCount) == maxConcurrency

\* workerCount of processUploadQueue
WorkerCountOf(maxConcurrency, fileCount) == Min2(maxConcurrency, fileCount)

\* ----------------------------------------------------------------- state
VARIABLES
  tree,        \* disk: the relative paths of the images under the source directory
  progFile,    \* disk: the progress file, None or Some(RunState)
  logFile,     \* disk: the upload log, a sequence of lines
  phase,       \* "idle": no process; "running": in processUploadQueue; "done": it returned
  runs,        \* invocations so far
  exit,        \* how the last invocation ended or where it stands
  opts,        \* options of the running invocation: mode, dryRun
  data,        \* tracker.data, None or Some(RunState)
  uploaded,    \* uploadLog.uploaded
  files,       \* the array handed to processUploadQueue, when it is an array of its own
  aliased,     \* files is the very array tracker.data.pendingFiles
  pathMap,     \* keys of pathMap
  nextIndex,   \* the shared cursor
  workerCount,
  wk,          \* per worker: pc, attempt, lastError, claim (its place in claimsLog)
  cur,         \* the worker running synchronously (0: the event loop is free)
  counts,      \* completed, failed, skipped of processUploadQueue
  claimsLog,   \* history: one record per item a worker took, with what was done for it
  recorded,    \* history: the names ever handed to logSuccess
  atStart,     \* history: the ledgers and lists when processUploadQueue was entered
  cReq, cCfg, cItems, cWorkers,  \* the concurrency calculation on its own
  tr,          \* a ProgressTracker on its own: its data and the calls made on it
  pf,          \* a pure function on its own: its argument and its result
  sv,          \* ProgressTracker.save on its own: the file while it is written
  lg           \* an UploadLog on its own: its set, its file, where logSuccess stands

vars == <<tree, progFile, logFile, phase, runs, exit, opts, data, uploaded, files,
          aliased, pathMap, nextIndex, workerCount, wk, cur, counts, claimsLog,
          recorded, atStart, cReq, cCfg, cItems, cWorkers, tr, pf, sv, lg>>

diskVars == <<tree, progFile, logFile>>
concVars == <<cReq, cCfg, cItems, cWorkers>>
unitVars == <<tr, pf, sv, lg>>
sideVars == <<concVars, unitVars>>
mainVars == <<tree, progFile, logFile, phase, runs, exit, opts, data, uploaded, files,
              aliased, pathMap, nextIndex, workerCount, wk, cur, counts, claimsLog,
              recorded, atStart>>

Workers == 1..MaxConc

WorkerOff == [pc |-> "off", attempt |-> 0, editAttempt |-> 0, lastError |-> None, claim |-> 0]
ZeroCounts == [completed |-> 0, failed |-> 0, skipped |-> 0]
NoOpts == [mode |-> "", dryRun |-> FALSE]

\* the array processUploadQueue indexes: in resume mode getPendingFiles returns
\* tracker.data.pendingFiles itself, not a copy
FilesNow == IF aliased THEN data[1].pendingFiles ELSE files

\* --concurrency as parseArgs leaves it, and upload.maxConcurrency of the config
ReqValues == {None} \cup {Some(i) : i \in 0..MaxConc}

\* the trees: at least one image, at most MaxFiles
Trees == {t \in SUBSET Paths : Cardinality(t) >= 1 /\ Cardinality(t) <= MaxFiles}

\* nothing has run yet: no progress file, an empty log, no process
Fresh ==
  /\ progFile = None
  /\ logFile = << >>
  /\ phase = "idle"
  /\ runs = 0
  /\ exit = ""
  /\ opts = NoOpts
  /\ data = None
  /\ uploaded = {}
  /\ files = << >>
  /\ aliased = FALSE
  /\ pathMap = {}
  /\ nextIndex = 0
  /\ workerCount = 0
  /\ wk = [w \in Workers |-> WorkerOff]
  /\ cur = 0
  /\ counts = ZeroCounts
  /\ claimsLog = << >>
  /\ recorded = {}
  /\ atStart = None

\* the objects looked at on their own are not there
ConcIdle == cReq = None /\ cCfg = None /\ cItems = 0 /\ cWorkers = 0
TrackerIdle == tr = None
PureIdle == pf = None
SaveIdle == sv = None
LogIdle == lg = None

Init ==
  /\ tree \in Trees
  /\ Fresh
  /\ ConcIdle /\ TrackerIdle /\ PureIdle /\ SaveIdle /\ LogIdle

\* the process is gone: nothing of its memory is left
ProcessGone(how) ==
  /\ phase' = "idle"
  /\ exit' = how
  /\ opts' = NoOpts
  /\ data' = None
  /\ uploaded' = {}
  /\ files' = << >>
  /\ aliased' = FALSE
  /\ pathMap' = {}
  /\ nextIndex' = 0
  /\ workerCount' = 0
  /\ wk' = [w \in Workers |-> WorkerOff]
  /\ cur' = 0
  /\ counts' = ZeroCounts
  /\ claimsLog' = << >>
  /\ atStart' = None

\* main from "if (filesToProcess.length === 0)" on, entering processUploadQueue up
\* to the creation of the workers; d is tracker.data, fileList the array handed
\* over (unused when it is data.pendingFiles itself)
Launch(mode, dryRun, loginOk, maxConcurrency, d, fileList, isAlias) ==
  LET list == IF isAlias THEN d.pendingFiles ELSE fileList
      u == UploadLogLoad(logFile)
  IN IF Len(list) = 0 THEN ProcessGone("nofiles")
     ELSE IF ~dryRun /\ ~loginOk THEN ProcessGone("login")
     ELSE /\ phase' = "running"
          /\ exit' = "running"
          /\ opts' = [mode |-> mode, dryRun |-> dryRun]
          /\ data' = Some(d)
          /\ uploaded' = u
          /\ files' = IF isAlias THEN << >> ELSE fileList
          /\ aliased' = isAlias
          /\ pathMap' = PathMapKeys(tree)
          /\ nextIndex' = 0
          /\ workerCount' = WorkerCountOf(maxConcurrency, Len(list))
          /\ wk' = [w \in Workers |->
                      IF w <= WorkerCountOf(maxConcurrency, Len(list))
                      THEN [WorkerOff EXCEPT !.pc = "idle"] ELSE WorkerOff]
          /\ cur' = 0
          /\ counts' = ZeroCounts
          /\ claimsLog' = << >>
          /\ atStart' = Some([files |-> list, data |-> d, prog |-> progFile',
                              log |-> logFile, uploaded |-> u, before |-> progFile])

\* the tool can be started: no process of it runs (a dry run does not log in)
Invocable(dryRun, loginOk) ==
  /\ phase \in {"idle", "done"}
  /\ runs < MaxRuns
  /\ dryRun => loginOk

\* main's loop over the failed names: push the ones pendingFiles does not include
RECURSIVE PushMissing(_, _)
PushMissing(pending, names) ==
  IF names = << >> THEN pending
  ELSE PushMissing(IF Includes(pending, Head(names)) THEN pending
                   ELSE Append(pending, Head(names)),
                   Tail(names))

\* main, new task: scan, flatten, drop what the log has, create the RunState
InvokeNew(dryRun, loginOk, maxConcurrency) ==
  LET images == collectImages(tree)
      all == MapSeq(images, transformPath)
      u == UploadLogLoad(logFile)
      filesToProcess == SelectSeq(all, LAMBDA f : f \notin u)
      d == TrackerInit(filesToProcess)
  IN /\ Invocable(dryRun, loginOk)
     /\ runs' = runs + 1
     /\ UNCHANGED <<tree, logFile, recorded, sideVars>>
     /\ IF Len(images) = 0
        THEN /\ progFile' = progFile
             /\ ProcessGone("noimages")
        ELSE /\ progFile' = Some(d)
             /\ Launch("new", dryRun, loginOk, maxConcurrency, d,
                       filesToProcess, FALSE)

\* main, --resume: the RunState of the progress file, its pendingFiles as the list
InvokeResume(dryRun, loginOk, maxConcurrency) ==
  /\ Invocable(dryRun, loginOk)
  /\ runs' = runs + 1
  /\ UNCHANGED <<diskVars, recorded, sideVars>>
  /\ IF progFile = None THEN ProcessGone("notfound")
     ELSE Launch("resume", dryRun, loginOk, maxConcurrency,
                 progFile[1], << >>, TRUE)

\* main, --retry-failed: the failed names go back to pendingFiles, failed is
\* emptied, the RunState is saved, the failed names are the list
InvokeRetry(dryRun, loginOk, maxConcurrency) ==
  /\ Invocable(dryRun, loginOk)
  /\ runs' = runs + 1
  /\ UNCHANGED <<tree, logFile, recorded, sideVars>>
  /\ IF progFile = None
     THEN /\ progFile' = progFile
          /\ ProcessGone("notfound")
     ELSE LET loaded == progFile[1]
              filesToProcess == GetFailedFiles(loaded)
              d == [loaded EXCEPT !.pendingFiles = PushMissing(@, filesToProcess),
                                  !.failed = << >>]
          IN /\ progFile' = Some(d)
             /\ Launch("retry", dryRun, loginOk, maxConcurrency, d,
                       filesToProcess, FALSE)

\* ---------------------------------------------------------------- workers
\* the message of the error that ends upload attempt k (returned by the service
\* or thrown): each attempt fails with a message of its own
UploadError(k) == <<"upload failed", k>>

NotFoundError == <<"Source file not found", 0>>

\* a cursor that is read and not incremented
AdvanceStuck(i) == i

\* nextIndex++
Advance(i) == i + 1

\* files[index]
ItemAt(list, index) == list[index + 1]

\* a membership test that never answers yes
isUploadedNever(targetName) == FALSE

\* uploadLog.isUploaded
isUploaded(targetName) == targetName \in uploaded

\* a dryRun option that is not looked at
DryRunIgnored == FALSE

\* the dryRun option of processUploadQueue
DryRun == opts.dryRun

\* a path map that has an entry for every name
inPathMapAlways(targetName) == TRUE

\* pathMap.get(targetName) is set
inPathMap(targetName) == targetName \in pathMap

AllStarted == \A v \in Workers : wk[v].pc # "idle"

\* tracker.markCompleted / markFailed / save, which do nothing without data
TrackerMarkCompleted(targetName) ==
  IF data = None THEN None ELSE Some(MarkCompleted(data[1], targetName))

TrackerMarkFailed(targetName, error, attempts) ==
  IF data = None THEN None ELSE Some(MarkFailed(data[1], targetName, error, attempts))

Saved(newData) == IF newData = None THEN progFile ELSE newData

Counted(field) == [counts EXCEPT ![field] = @ + 1]

\* claimsLog keeps what was done for an item (events and calls, in order) while
\* the item is its worker's latest; of an earlier item it keeps the result only
Forget(log, w) ==
  [c \in 1..Len(log) |->
     IF log[c].worker = w
     THEN [log[c] EXCEPT !.trace = << >>, !.worker = 0, !.message = None]
     ELSE log[c]]

Traced(c, what) == [claimsLog EXCEPT ![c].trace = @ \o what]

Settled(log, c, what, result) ==
  [log EXCEPT ![c].trace = @ \o what, ![c].result = result]

BackToLoop(w) == [wk EXCEPT ![w] = [WorkerOff EXCEPT !.pc = "loop", !.claim = wk[w].claim]]

\* the worker's "if (result.success)" branch: the event, the counter,
\* tracker.markCompleted and uploadLog.logSuccess, then the loop goes on
ItemSucceeded(w, before, event, counter) ==
  LET c == wk[w].claim
      targetName == claimsLog[c].file
  IN /\ claimsLog' = Settled(claimsLog, c,
                             before \o <<event, "markCompleted", "logSuccess">>, counter)
     /\ counts' = Counted(counter)
     /\ data' = TrackerMarkCompleted(targetName)
     /\ progFile' = Saved(data')
     /\ uploaded' = uploaded \cup {targetName}
     /\ logFile' = Append(logFile, SuccessLine(targetName, wikiPrefix))
     /\ recorded' = recorded \cup {targetName}
     /\ wk' = BackToLoop(w)
     /\ cur' = w

\* the worker's else branch: the error event, tracker.markFailed, uploadLog.logFailed
ItemFailed(w, before, error, attempts) ==
  LET c == wk[w].claim
      targetName == claimsLog[c].file
  IN /\ claimsLog' = [Settled(claimsLog, c,
                              before \o <<"error", "markFailed", "logFailed">>, "failed")
                        EXCEPT ![c].message = Some(error)]
     /\ counts' = Counted("failed")
     /\ data' = TrackerMarkFailed(targetName, error, attempts)
     /\ progFile' = Saved(data')
     /\ logFile' = Append(logFile, FailedLine(targetName, error))
     /\ wk' = BackToLoop(w)
     /\ cur' = w
     /\ UNCHANGED <<uploaded, recorded>>

\* a content-identical upload counted as a completed transfer
NoChangeCompleted(w) == ItemSucceeded(w, << >>, "skip", "completed")

\* uploadSingleImage returns { success: true, skipped: true }: the worker's
\* skip event and skipped++, then markCompleted and logSuccess
NoChange(w) == ItemSucceeded(w, << >>, "skip", "skipped")

\* a give-up that reports the error of the first attempt
UploadGaveUpFirstError(w) ==
  ItemFailed(w, <<"uploadFailed">>, UploadError(1), Retries)

\* every upload attempt failed: uploadSingleImage returns success: false with
\* the last error, and the worker takes its else branch
UploadGaveUp(w) ==
  ItemFailed(w, <<"uploadFailed">>, UploadError(wk[w].attempt), Retries)

\* an exhausted edit taken for a failure of the item
EditGaveUpFails(w) == ItemFailed(w, <<"editFailed">>, UploadError(0), Retries)

\* every edit attempt failed: editFilePage returns success: false,
\* uploadSingleImage returns success: true with a warning, and the worker
\* reports the warning and takes its success branch
EditGaveUp(w) == ItemSucceeded(w, <<"editFailed">>, "warning", "completed")

\* One turn of worker()'s loop, up to its continue, its return or its first
\* await.  A worker is started only when the ones before it have reached an
\* await or returned; after a continue it runs on before anything else does.
WorkerLoop(w) ==
  /\ phase = "running"
  /\ \/ wk[w].pc = "loop" /\ cur = w
     \/ wk[w].pc = "idle" /\ cur = 0 /\ \A v \in 1..(w - 1) : wk[v].pc # "idle"
  /\ nextIndex' = Advance(nextIndex)
  /\ UNCHANGED <<tree, phase, runs, exit, opts, files, aliased, pathMap, workerCount,
                 atStart, sideVars>>
  /\ IF nextIndex >= Len(FilesNow)
     THEN /\ wk' = [wk EXCEPT ![w] = [WorkerOff EXCEPT !.pc = "done"]]
          /\ cur' = 0
          /\ claimsLog' = Forget(claimsLog, w)
          /\ UNCHANGED <<progFile, logFile, data, uploaded, counts, recorded>>
     ELSE LET targetName == ItemAt(FilesNow, nextIndex)
              c == Len(claimsLog) + 1
              taken == Append(Forget(claimsLog, w),
                              [index |-> nextIndex, worker |-> w, file |-> targetName,
                               known |-> targetName \in uploaded,
                               mapped |-> targetName \in pathMap,
                               started |-> FALSE, trace |-> << >>, result |-> "",
                               message |-> None])
              mine == [wk EXCEPT ![w] = [WorkerOff EXCEPT !.pc = "loop", !.claim = c]]
          IN IF ~inPathMap(targetName)
             THEN /\ claimsLog' = [Settled(taken, c, <<"error", "markFailed", "logFailed">>,
                                           "failed")
                                     EXCEPT ![c].message = Some(NotFoundError)]
                  /\ counts' = Counted("failed")
                  /\ data' = TrackerMarkFailed(targetName, NotFoundError, 1)
                  /\ progFile' = Saved(data')
                  /\ logFile' = Append(logFile, FailedLine(targetName, NotFoundError))
                  /\ wk' = mine
                  /\ cur' = w
                  /\ UNCHANGED <<uploaded, recorded>>
             ELSE IF isUploaded(targetName)
             THEN /\ claimsLog' = Settled(taken, c, <<"skip", "markCompleted">>, "skipped")
                  /\ counts' = Counted("skipped")
                  /\ data' = TrackerMarkCompleted(targetName)
                  /\ progFile' = Saved(data')
                  /\ wk' = mine
                  /\ cur' = w
                  /\ UNCHANGED <<logFile, uploaded, recorded>>
             ELSE IF DryRun
             THEN /\ claimsLog' = Settled(taken, c, <<"dry-run">>, "completed")
                  /\ counts' = Counted("completed")
                  /\ wk' = mine
                  /\ cur' = w
                  /\ UNCHANGED <<progFile, logFile, data, uploaded, recorded>>
             ELSE /\ claimsLog' = [taken EXCEPT ![c].trace = <<"uploading", "upload">>,
                                                 ![c].started = TRUE]
                  /\ wk' = [wk EXCEPT ![w] = [WorkerOff EXCEPT
                                                !.pc = "upload", !.attempt = 1, !.claim = c]]
                  /\ cur' = 0
                  /\ UNCHANGED <<progFile, logFile, data, uploaded, counts, recorded>>

\* wiki.uploadImage of the current attempt settles: "ok" (no error), "nochange"
\* (error code fileexists-no-change) or "fail" (another error, or it throws).
\* After a failure that is not the last, the backoff sleep and the next
\* attempt's call are part of the step: nothing shared is touched in between.
UploadReturn(w, outcome) ==
  /\ phase = "running"
  /\ cur = 0
  /\ AllStarted
  /\ wk[w].pc = "upload"
  /\ UNCHANGED <<tree, phase, runs, exit, opts, files, aliased, pathMap, nextIndex,
                 workerCount, atStart, sideVars>>
  /\ IF outcome = "ok"
     THEN \* editFilePage is entered and issues wiki.editPage; the upload loop's
          \* attempt and lastError are not read again, and of the upload calls
          \* the history keeps the one that succeeded
          /\ wk' = [wk EXCEPT ![w].pc = "edit", ![w].editAttempt = 1,
                              ![w].attempt = 0, ![w].lastError = None]
          /\ claimsLog' = [claimsLog EXCEPT
                             ![wk[w].claim].trace = <<"uploading", "upload", "uploaded", "edit">>]
          /\ cur' = 0
          /\ UNCHANGED <<progFile, logFile, data, uploaded, counts, recorded>>
     ELSE IF outcome = "nochange"
     THEN NoChange(w)
     ELSE IF wk[w].attempt < Retries
     THEN /\ wk' = [wk EXCEPT ![w].attempt = @ + 1,
                              ![w].lastError = Some(UploadError(wk[w].attempt))]
          /\ claimsLog' = Traced(wk[w].claim, <<"uploadFailed", "upload">>)
          /\ cur' = 0
          /\ UNCHANGED <<progFile, logFile, data, uploaded, counts, recorded>>
     ELSE UploadGaveUp(w)

\* wiki.editPage of the current attempt settles, well (ok) or not; after a
\* failure that is not the last, the sleep and the next call are part of the step
EditReturn(w, ok) ==
  /\ phase = "running"
  /\ cur = 0
  /\ AllStarted
  /\ wk[w].pc = "edit"
  /\ UNCHANGED <<tree, phase, runs, exit, opts, files, aliased, pathMap, nextIndex,
                 workerCount, atStart, sideVars>>
  /\ IF ok
     THEN ItemSucceeded(w, << >>, "success", "completed")
     ELSE IF wk[w].editAttempt < Retries
     THEN /\ wk' = [wk EXCEPT ![w].editAttempt = @ + 1]
          /\ claimsLog' = Traced(wk[w].claim, <<"editFailed", "edit">>)
          /\ cur' = 0
          /\ UNCHANGED <<progFile, logFile, data, uploaded, counts, recorded>>
     ELSE EditGaveUp(w)

\* Promise.all(workers) settles: processUploadQueue returns its counts
Finish ==
  /\ phase = "running"
  /\ \A w \in Workers : wk[w].pc \in {"done", "off"}
  /\ phase' = "done"
  /\ exit' = "ok"
  /\ UNCHANGED <<diskVars, runs, opts, data, uploaded, files, aliased, pathMap,
                 nextIndex, workerCount, wk, cur, counts, claimsLog, recorded, atStart,
                 sideVars>>

\* the process is killed while processUploadQueue runs
Crash ==
  /\ phase = "running"
  /\ runs < MaxRuns
  /\ ProcessGone("crash")
  /\ UNCHANGED <<diskVars, runs, recorded, sideVars>>

\* between two invocations an image is removed from the source directory
SourceChange(p) ==
  /\ phase \in {"idle", "done"}
  /\ runs > 0
  /\ runs < MaxRuns
  /\ p \in tree
  /\ tree' = tree \ {p}
  /\ UNCHANGED <<progFile, logFile, phase, runs, exit, opts, data, uploaded, files,
                 aliased, pathMap, nextIndex, workerCount, wk, cur, counts, claimsLog,
                 recorded, atStart, sideVars>>

\* the maxConcurrency values the options and the configuration can give
MaxConcurrencies ==
  {m \in {maxConcurrencyOf(req, cfg) : req \in ReqValues, cfg \in ReqValues} :
     m <= MaxConc}

Next ==
  \/ \E dryRun \in BOOLEAN, loginOk \in BOOLEAN, m \in MaxConcurrencies :
       \/ InvokeNew(dryRun, loginOk, m)
       \/ InvokeResume(dryRun, loginOk, m)
       \/ InvokeRetry(dryRun, loginOk, m)
  \/ \E w \in Workers :
       \/ WorkerLoop(w)
       \/ \E outcome \in {"ok", "nochange", "fail"} : UploadReturn(w, outcome)
       \/ \E ok \in BOOLEAN : EditReturn(w, ok)
  \/ Finish
  \/ Crash
  \/ \E p \in Paths : SourceChange(p)

Spec == Init /\ [][Next]_vars

\* one step of worker w: the synchronous stretch up to its next await
WorkerStep(w) ==
  \/ WorkerLoop(w)
  \/ \E outcome \in {"ok", "nochange", "fail"} : UploadReturn(w, outcome)
  \/ \E ok \in BOOLEAN : EditReturn(w, ok)

\* every remote call returns or throws, and the event loop runs what is ready
SpecLive ==
  Spec /\ (\A w \in Workers : WF_vars(WorkerStep(w))) /\ WF_vars(Finish)

\* ------------------------------------------- the worker count on its own
\* The values --concurrency and the configuration can hold (None: not a finite
\* number, or not given) and the lengths of the list, over a range wide enough
\* for the documented example: 10 requested, 3 configured, 100 items.
MaxConcValue == 4
MaxItemCount == 4

ConcValues ==
  {None} \cup {Some(i) : i \in (-1)..MaxConcValue} \cup {Some(10)}

\* main leaves before processUploadQueue when the list is empty
ItemCounts == (1..MaxItemCount) \cup {100}

InitConc ==
  /\ tree = {PathD}
  /\ Fresh
  /\ cReq \in ConcValues
  /\ cCfg \in ConcValues
  /\ cItems \in ItemCounts
  /\ cWorkers = 0
  /\ TrackerIdle /\ PureIdle /\ SaveIdle /\ LogIdle

\* main's resolveConcurrency, then processUploadQueue up to Array.from: the
\* number of workers created for cItems items
StartWorkers ==
  /\ cWorkers = 0
  /\ cWorkers' = WorkerCountOf(maxConcurrencyOf(cReq, cCfg), cItems)
  /\ UNCHANGED <<tree, progFile, logFile, phase, runs, exit, opts, data, uploaded,
                 files, aliased, pathMap, nextIndex, workerCount, wk, cur, counts,
                 claimsLog, recorded, atStart, cReq, cCfg, cItems, unitVars>>

NextConc == StartWorkers

SpecConc == InitConc /\ [][NextConc]_vars

\* ------------------------------------------- a ProgressTracker on its own
\* The lists tracker.init can be given: main maps transformPath over the images
\* found, and any number of paths can flatten to one name.
MaxPending == 4

RECURSIVE SeqsUpTo(_, _)
SeqsUpTo(S, n) ==
  IF n = 0 THEN {<< >>}
  ELSE LET shorter == SeqsUpTo(S, n - 1)
       IN shorter \cup {Append(q, x) : q \in shorter, x \in S}

FileLists == SeqsUpTo(Names, MaxPending)

\* the errors markFailed is called with, and their attempts
FailureReports == {<<NotFoundError, 1>>, <<UploadError(Retries), Retries>>}

\* the last three calls, the newest last
LastCalls(calls, call) ==
  LET all == Append(calls, call)
  IN IF Len(all) > 3 THEN Tail(all) ELSE all

InitTracker ==
  /\ tree = {PathD}
  /\ Fresh
  /\ ConcIdle /\ PureIdle /\ SaveIdle /\ LogIdle
  /\ tr \in {Some([data |-> TrackerInit(fileList), calls |-> << >>]) :
               fileList \in FileLists}

\* tracker.markCompleted(targetName)
CallMarkCompleted(targetName) ==
  /\ tr' = Some([data |-> MarkCompleted(tr[1].data, targetName),
                 calls |-> LastCalls(tr[1].calls, <<"markCompleted", targetName>>)])
  /\ UNCHANGED <<mainVars, concVars, pf, sv, lg>>

\* tracker.markFailed(targetName, error, attempts)
CallMarkFailed(targetName, report) ==
  /\ tr' = Some([data |-> MarkFailed(tr[1].data, targetName, report[1], report[2]),
                 calls |-> LastCalls(tr[1].calls, <<"markFailed", targetName>>)])
  /\ UNCHANGED <<mainVars, concVars, pf, sv, lg>>

\* main's retry-failed admission on the tracker's data
CallRetryAdmission ==
  /\ tr[1].data.failed # << >>
  /\ tr' = Some([data |-> [tr[1].data EXCEPT
                             !.pendingFiles = PushMissing(@, GetFailedFiles(tr[1].data)),
                             !.failed = << >>],
                 calls |-> LastCalls(tr[1].calls, <<"retry", << >>>>)])
  /\ UNCHANGED <<mainVars, concVars, pf, sv, lg>>

NextTracker ==
  \/ \E n \in Names : CallMarkCompleted(n)
  \/ \E n \in Names, report \in FailureReports : CallMarkFailed(n, report)
  \/ CallRetryAdmission

SpecTracker == InitTracker /\ [][NextTracker]_vars

\* --------------------------------------------- sanitizeFileName on its own
MaxNameLen == 4

\* String.prototype.replace with a global character class
ReplaceIn(s, class, by) == [i \in 1..Len(s) |-> IF s[i] \in class THEN by ELSE s[i]]

\* the class [#?<>|"\\] of sanitizeFileName
Reserved == {"#", "?", "<", ">", "|", "\"", "\\"}

\* replace(/\s\s/g, ' '): whitespace characters taken two by two
RECURSIVE CollapsePairs(_)
CollapsePairs(s) ==
  IF Len(s) < 2 THEN s
  ELSE IF s[1] \in WS /\ s[2] \in WS THEN <<" ">> \o CollapsePairs(Tail(Tail(s)))
  ELSE <<s[1]>> \o CollapsePairs(Tail(s))

\* replace(/\s+/g, ' ')
RECURSIVE CollapseWs(_)
CollapseWs(s) ==
  IF s = << >> THEN s
  ELSE IF Head(s) \in WS THEN <<" ">> \o CollapseWs(TrimLeft(Tail(s)))
  ELSE <<Head(s)>> \o CollapseWs(Tail(s))

sanitizeFileName(fileName) ==
  Trim(CollapseWs(ReplaceIn(ReplaceIn(fileName, {":"}, "_"), Reserved, "_")))

\* reserved characters, whitespace characters, ordinary characters
NameChars == {":", "#", "\\", " ", "\t", "x", "_"}

FileNames == SeqsUpTo(NameChars, MaxNameLen)

InitSanitize ==
  /\ tree = {PathD}
  /\ Fresh
  /\ ConcIdle /\ TrackerIdle /\ SaveIdle /\ LogIdle
  /\ pf \in {Some([arg |-> fileName, once |-> None, twice |-> None]) :
               fileName \in FileNames}

\* sanitizeFileName(fileName)
SanitizeOnce ==
  /\ pf[1].once = None
  /\ pf' = Some([pf[1] EXCEPT !.once = Some(sanitizeFileName(pf[1].arg))])
  /\ UNCHANGED <<mainVars, concVars, tr, sv, lg>>

\* sanitizeFileName of that result
SanitizeAgain ==
  /\ pf[1].once # None
  /\ pf[1].twice = None
  /\ pf' = Some([pf[1] EXCEPT !.twice = Some(sanitizeFileName(pf[1].once[1]))])
  /\ UNCHANGED <<mainVars, concVars, tr, sv, lg>>

NextSanitize == SanitizeOnce \/ SanitizeAgain

SpecSanitize == InitSanitize /\ [][NextSanitize]_vars

\* -------------------------------------------- extractCategories on its own
MaxDepth == 4

\* String.prototype.split('/')
RECURSIVE Split(_)
Split(s) ==
  IF \A i \in 1..Len(s) : s[i] # "/" THEN <<s>>
  ELSE LET i == CHOOSE k \in 1..Len(s) :
                  s[k] = "/" /\ \A j \in 1..(k - 1) : s[j] # "/"
       IN <<SubSeq(s, 1, i - 1)>> \o Split(SubSeq(s, i + 1, Len(s)))

\* String.prototype.toLowerCase
toLowerCase(s) ==
  [i \in 1..Len(s) |-> CASE s[i] = "S" -> "s" [] s[i] = "F" -> "f" [] OTHER -> s[i]]

\* categoryMapping[folderLower] || null
Lookup(categoryMapping, key) ==
  IF key \in DOMAIN categoryMapping THEN Some(categoryMapping[key]) ELSE None

\* bookId taken from the second of two parts already
extractCategoriesShallow(relativePath, config) ==
  LET parts == Split(relativePath)
  IN [folder |-> IF Len(parts) >= 2 THEN Some(parts[1]) ELSE None,
      folderChinese |-> IF Len(parts) >= 2
                        THEN Lookup(config.categoryMapping, toLowerCase(parts[1]))
                        ELSE None,
      bookId |-> IF Len(parts) >= 2 THEN Some(parts[2]) ELSE None]

extractCategories(relativePath, config) ==
  LET parts == Split(relativePath)
  IN [folder |-> IF Len(parts) >= 2 THEN Some(parts[1]) ELSE None,
      folderChinese |-> IF Len(parts) >= 2
                        THEN Lookup(config.categoryMapping, toLowerCase(parts[1]))
                        ELSE None,
      bookId |-> IF Len(parts) >= 3 THEN Some(parts[2]) ELSE None]

\* names of folders and files: one character each, two of them upper case
SegmentNames == {<<"s">>, <<"S">>, <<"F">>, <<"x">>}

\* path.relative(sourceDir, fullPath) of collectImages: the segments joined
RECURSIVE Join(_)
Join(segments) ==
  IF Len(segments) = 1 THEN segments[1]
  ELSE segments[1] \o <<"/">> \o Join(Tail(segments))

SegmentLists == SeqsUpTo(SegmentNames, MaxDepth) \ {<< >>}

\* config.categoryMapping: absent, or spells and the like mapped
Configs ==
  {[categoryMapping |-> << >>],
   [categoryMapping |-> [k \in {<<"s">>} |-> "spells"]],
   [categoryMapping |-> [k \in {<<"s">>, <<"f">>} |-> IF k = <<"s">> THEN "spells" ELSE "feats"]]}

InitCategories ==
  /\ tree = {PathD}
  /\ Fresh
  /\ ConcIdle /\ TrackerIdle /\ SaveIdle /\ LogIdle
  /\ pf \in {Some([segments |-> segments, config |-> config, result |-> None]) :
               segments \in SegmentLists, config \in Configs}

\* extractCategories(relativePath, config)
CallExtractCategories ==
  /\ pf[1].result = None
  /\ pf' = Some([pf[1] EXCEPT
                    !.result = Some(extractCategories(Join(pf[1].segments), pf[1].config))])
  /\ UNCHANGED <<mainVars, concVars, tr, sv, lg>>

NextCategories == CallExtractCategories

SpecCategories == InitCategories /\ [][NextCategories]_vars

\* ------------------------------------------- ProgressTracker.save on its own
MaxSaved == 2

\* JSON.stringify(this.data, null, 2), as the pieces a write can stop between
Stringify(d) ==
  <<<<"{">>, <<"totalFiles", d.totalFiles>>, <<"pendingFiles", d.pendingFiles>>,
    <<"completed", d.completed>>, <<"failed", d.failed>>, <<"}">>>>

\* JSON.parse: the value of a complete text, a SyntaxError for anything less
JsonParse(text) ==
  IF Len(text) = 6 /\ text[6] = <<"}">>
  THEN <<"ok", [totalFiles |-> text[2][2], pendingFiles |-> text[3][2],
                completed |-> text[4][2], failed |-> text[5][2]]>>
  ELSE <<"SyntaxError">>

\* ProgressTracker.load on a file (None: there is none)
TrackerLoad(file) == IF file = None THEN <<"null">> ELSE JsonParse(file[1])

SavedLists == SeqsUpTo(Names, MaxSaved)

\* a tracker not yet initialised, no progress file
InitSave ==
  /\ tree = {PathD}
  /\ Fresh
  /\ ConcIdle /\ TrackerIdle /\ PureIdle /\ LogIdle
  /\ sv = Some([data |-> None, disk |-> None, prev |-> None, pc |-> "idle",
                loaded |-> None])

\* a mutating call has changed this.data to d and enters save(): the file is
\* whole, what it holds is the previous state
EnterSave(d) ==
  /\ sv[1].pc = "idle"
  /\ sv' = Some([sv[1] EXCEPT !.data = Some(d), !.prev = sv[1].disk, !.pc = "open"])
  /\ UNCHANGED <<mainVars, concVars, tr, pf, lg>>

\* tracker.init(sourceDir, files)
SaveFromInit(fileList) ==
  /\ sv[1].data = None
  /\ EnterSave(TrackerInit(fileList))

\* tracker.markCompleted(targetName)
SaveFromMarkCompleted(targetName) ==
  /\ sv[1].data # None
  /\ EnterSave(MarkCompleted(sv[1].data[1], targetName))

\* tracker.markFailed(targetName, error, attempts)
SaveFromMarkFailed(targetName, report) ==
  /\ sv[1].data # None
  /\ EnterSave(MarkFailed(sv[1].data[1], targetName, report[1], report[2]))

\* main's retry-failed admission, which ends with tracker.save()
SaveFromRetry ==
  /\ sv[1].data # None
  /\ sv[1].data[1].failed # << >>
  /\ EnterSave([sv[1].data[1] EXCEPT
                  !.pendingFiles = PushMissing(@, GetFailedFiles(sv[1].data[1])),
                  !.failed = << >>])

\* fs.writeFileSync opens the file itself for writing: it is created or cut to
\* length 0
WriteFileOpen ==
  /\ sv[1].pc = "open"
  /\ sv' = Some([sv[1] EXCEPT !.disk = Some(<< >>), !.pc = "write"])
  /\ UNCHANGED <<mainVars, concVars, tr, pf, lg>>

\* fs.writeFileSync writes the text, in as many writes as it takes, and
\* returns after the last
WriteFileWrite ==
  /\ sv[1].pc = "write"
  /\ \E upTo \in (Len(sv[1].disk[1]) + 1)..Len(Stringify(sv[1].data[1])) :
       sv' = Some([sv[1] EXCEPT
                     !.disk = Some(SubSeq(Stringify(sv[1].data[1]), 1, upTo)),
                     !.pc = IF upTo = Len(Stringify(sv[1].data[1]))
                            THEN "idle" ELSE "write"])
  /\ UNCHANGED <<mainVars, concVars, tr, pf, lg>>

\* the process is killed, between two calls or inside save()
Killed ==
  /\ sv[1].pc \in {"idle", "open", "write"}
  /\ sv' = Some([sv[1] EXCEPT !.pc = "dead"])
  /\ UNCHANGED <<mainVars, concVars, tr, pf, lg>>

\* a later process: tracker.load() on the file that was left
LoadLater ==
  /\ sv[1].pc = "dead"
  /\ sv[1].loaded = None
  /\ sv' = Some([sv[1] EXCEPT !.loaded = Some(TrackerLoad(sv[1].disk))])
  /\ UNCHANGED <<mainVars, concVars, tr, pf, lg>>

NextSave ==
  \/ \E fileList \in SavedLists : SaveFromInit(fileList)
  \/ \E n \in Names : SaveFromMarkCompleted(n)
  \/ \E n \in Names, report \in FailureReports : SaveFromMarkFailed(n, report)
  \/ SaveFromRetry
  \/ WriteFileOpen
  \/ WriteFileWrite
  \/ Killed
  \/ LoadLater

SpecSave == InitSave /\ [][NextSave]_vars

\* ------------------------------------------------- an UploadLog on its own
MaxLines == 4

\* new UploadLog(logFilePath) where there is no log file yet
InitLog ==
  /\ tree = {PathD}
  /\ Fresh
  /\ ConcIdle /\ TrackerIdle /\ PureIdle /\ SaveIdle
  /\ lg = Some([uploaded |-> {}, file |-> << >>, pc |-> "idle", line |-> None,
                threw |-> FALSE])

\* uploadLog.logSuccess(targetName, wikiPrefix) up to its call of appendLog:
\* the line is built and the name is added to the set
LogSuccessAdd(targetName) ==
  /\ lg[1].pc = "idle"
  /\ Len(lg[1].file) < MaxLines
  /\ lg' = Some([lg[1] EXCEPT !.uploaded = @ \cup {targetName},
                              !.line = Some(SuccessLine(targetName, wikiPrefix)),
                              !.pc = "append", !.threw = FALSE])
  /\ UNCHANGED <<mainVars, concVars, tr, pf, sv>>

\* uploadLog.logFailed(targetName, error) up to its call of appendLog
LogFailedBuild(targetName) ==
  /\ lg[1].pc = "idle"
  /\ Len(lg[1].file) < MaxLines
  /\ lg' = Some([lg[1] EXCEPT !.line = Some(FailedLine(targetName, NotFoundError)),
                              !.pc = "append", !.threw = FALSE])
  /\ UNCHANGED <<mainVars, concVars, tr, pf, sv>>

\* appendLog: fs.appendFileSync adds the line to the file
AppendLogDone ==
  /\ lg[1].pc = "append"
  /\ lg' = Some([lg[1] EXCEPT !.file = Append(@, lg[1].line[1]), !.line = None,
                              !.pc = "idle"])
  /\ UNCHANGED <<mainVars, concVars, tr, pf, sv>>

\* appendLog: fs.mkdirSync or fs.appendFileSync throws (no space, no
\* permission), and so does the call of logSuccess or logFailed
AppendLogThrows ==
  /\ lg[1].pc = "append"
  /\ lg' = Some([lg[1] EXCEPT !.line = None, !.pc = "idle", !.threw = TRUE])
  /\ UNCHANGED <<mainVars, concVars, tr, pf, sv>>

NextLog ==
  \/ \E n \in Names : LogSuccessAdd(n)
  \/ \E n \in Names : LogFailedBuild(n)
  \/ AppendLogDone
  \/ AppendLogThrows

SpecLog == InitLog /\ [][NextLog]_vars

\* ------------------------------------- logFailed and a later load, on their own
MaxReasonLen == 4
MaxEntries == 2

\* what an error text of the service or of an exception can be made of,
\* besides ordinary characters
ReasonChars == {" ", "]", "SUCCESS"}

\* the error texts: an ordinary one, and the texts over ReasonChars
Reasons == {<<"x">>} \cup SeqsUpTo(ReasonChars, MaxReasonLen)

\* new UploadLog(logFilePath) where there is no log file yet
InitFailure ==
  /\ tree = {PathD}
  /\ Fresh
  /\ ConcIdle /\ TrackerIdle /\ PureIdle /\ SaveIdle
  /\ lg = Some([uploaded |-> {}, file |-> << >>, successes |-> << >>,
                before |-> {}, last |-> "", loaded |-> None])

\* uploadLog.logSuccess(targetName, wikiPrefix)
LogSuccess(targetName) ==
  /\ lg[1].loaded = None
  /\ Len(lg[1].file) < MaxEntries
  /\ lg' = Some([lg[1] EXCEPT
                   !.uploaded = @ \cup {targetName},
                   !.file = Append(@, SuccessLine(targetName, wikiPrefix)),
                   !.successes = Append(@, SuccessLine(targetName, wikiPrefix)),
                   !.before = lg[1].uploaded,
                   !.last = "logSuccess"])
  /\ UNCHANGED <<mainVars, concVars, tr, pf, sv>>

\* uploadLog.logFailed(targetName, error)
LogFailed(targetName, reason) ==
  /\ lg[1].loaded = None
  /\ Len(lg[1].file) < MaxEntries
  /\ lg' = Some([lg[1] EXCEPT
                   !.file = Append(@, FailedText(targetName, reason)),
                   !.before = lg[1].uploaded,
                   !.last = "logFailed"])
  /\ UNCHANGED <<mainVars, concVars, tr, pf, sv>>

\* a later process: new UploadLog(logFilePath) loads the file
LoadLog ==
  /\ lg[1].loaded = None
  /\ lg' = Some([lg[1] EXCEPT !.loaded = Some(UploadLogLoad(lg[1].file))])
  /\ UNCHANGED <<mainVars, concVars, tr, pf, sv>>

NextFailure ==
  \/ \E n \in Names : LogSuccess(n)
  \/ \E n \in Names, reason \in Reasons : LogFailed(n, reason)
  \/ LoadLog

SpecFailure == InitFailure /\ [][NextFailure]_vars

\* ------------------------------------ loading a progress file, on its own
\* the fields ProgressTracker.init writes and the rest of the code reads
RequiredFields ==
  {"taskId", "sourceDir", "totalFiles", "pendingFiles", "completed", "failed"}

\* the value a progress file written by this tool has in a field
FieldValue(field) ==
  CASE field = "taskId" -> "T"
    [] field = "sourceDir" -> "src"
    [] field = "totalFiles" -> 2
    [] field = "pendingFiles" -> <<PathD>>
    [] field = "completed" -> << >>
    [] field = "failed" ->
         <<[file |-> transformPath(PathABC), error |-> UploadError(Retries),
            attempts |-> Retries]>>
    [] OTHER -> "?"

\* the objects JSON.parse can return for a progress file: any of the fields
\* may be missing, and a field with another name may be there ("pending")
StoredObjects ==
  {[field \in fields \cup extra |-> FieldValue(field)] :
     fields \in SUBSET RequiredFields, extra \in {{}, {"pending"}}}

\* the progress file: None when there is none
StoredFiles == {None} \cup {Some(object) : object \in StoredObjects}

\* object.field; None stands for undefined
Get(object, field) == IF field \in DOMAIN object THEN Some(object[field]) ELSE None

InitLoad ==
  /\ tree = {PathD}
  /\ Fresh
  /\ ConcIdle /\ PureIdle /\ SaveIdle /\ LogIdle
  /\ tr \in {Some([file |-> file, mode |-> "", outcome |-> None, list |-> None]) :
               file \in StoredFiles}

\* how main has left its resume or retry-failed branch: with the message
\* 'Progress file not found' and exit code 1, with a TypeError, with 'No
\* files to process', or on to the login and processUploadQueue with a list
Left(mode, outcome, list) ==
  /\ tr' = Some([tr[1] EXCEPT !.mode = mode, !.outcome = Some(outcome), !.list = list])
  /\ UNCHANGED <<mainVars, concVars, pf, sv, lg>>

\* main with --resume: tracker.load(), getPendingFiles(), filesToProcess.length
MainResume ==
  /\ tr[1].outcome = None
  /\ IF tr[1].file = None THEN Left("resume", "notFound", None)
     ELSE LET loaded == tr[1].file[1]
              filesToProcess == Get(loaded, "pendingFiles")
          IN IF filesToProcess = None THEN Left("resume", "TypeError", None)
             ELSE IF Len(filesToProcess[1]) = 0 THEN Left("resume", "noFiles", None)
             ELSE Left("resume", "executor", filesToProcess)

\* main with --retry-failed: tracker.load(), getFailedFiles(), the admission
\* loop on data.pendingFiles, filesToProcess.length
MainRetry ==
  /\ tr[1].outcome = None
  /\ IF tr[1].file = None THEN Left("retry", "notFound", None)
     ELSE LET loaded == tr[1].file[1]
              failed == Get(loaded, "failed")
              pendingFiles == Get(loaded, "pendingFiles")
          IN IF failed = None THEN Left("retry", "TypeError", None)
             ELSE IF Len(failed[1]) = 0 THEN Left("retry", "noFiles", None)
             ELSE IF pendingFiles = None THEN Left("retry", "TypeError", None)
             ELSE Left("retry", "executor",
                       Some(MapSeq(failed[1], LAMBDA f : f.file)))

NextLoad == MainResume \/ MainRetry

SpecLoad == InitLoad /\ [][NextLoad]_vars

\* ------------------------------------ the progress file of a resumed run
\* two places a progress file can be at: the default of --progress-file and
\* another path
ProgressPaths == {"./upload-progress.json", "./other.json"}

\* what can be at such a place: nothing, or the RunState of a task
ProgressFiles == {None} \cup {Some(TrackerInit(fileList)) : fileList \in SavedLists}

\* main up to the end of its resume branch: new ProgressTracker(
\* options.progressFile), tracker.load(), getPendingFiles()
InitResume ==
  /\ tree = {PathD}
  /\ Fresh
  /\ ConcIdle /\ TrackerIdle /\ PureIdle /\ LogIdle
  /\ sv \in {Some([disk |-> disk, before |-> disk, resume |-> resume,
                    progressFile |-> progressFile, filePath |-> "", data |-> None,
                    handed |-> None, reads |-> {}, writes |-> {}, pc |-> "main"]) :
               disk \in [ProgressPaths -> ProgressFiles], resume \in ProgressPaths,
               progressFile \in ProgressPaths}

\* main with --resume <resume>, and --progress-file <progressFile> or its
\* default: the tracker is made for options.progressFile and loaded
ResumeLoad ==
  /\ sv[1].pc = "main"
  /\ LET path == sv[1].progressFile
         loaded == sv[1].disk[path]
     IN sv' = Some([sv[1] EXCEPT
                      !.filePath = path,
                      !.reads = @ \cup {path},
                      !.data = loaded,
                      !.handed = IF loaded = None \/ loaded[1].pendingFiles = << >>
                                 THEN None ELSE Some(loaded[1].pendingFiles),
                      !.pc = IF loaded = None THEN "notFound"
                             ELSE IF loaded[1].pendingFiles = << >> THEN "noFiles"
                             ELSE "executor"])
  /\ UNCHANGED <<mainVars, concVars, tr, pf, lg>>

\* the first item of the resumed run ends: tracker.markCompleted(files[0]),
\* whose save() writes this.filePath
ResumeItemDone ==
  /\ sv[1].pc = "executor"
  /\ LET d == MarkCompleted(sv[1].data[1], sv[1].handed[1][1])
     IN sv' = Some([sv[1] EXCEPT
                      !.data = Some(d),
                      !.disk = [@ EXCEPT ![sv[1].filePath] = Some(d)],
                      !.writes = @ \cup {sv[1].filePath},
                      !.pc = "saved"])
  /\ UNCHANGED <<mainVars, concVars, tr, pf, lg>>

NextResume == ResumeLoad \/ ResumeItemDone

SpecResume == InitResume /\ [][NextResume]_vars

\* ------------------------------------------------------------- properties
Count(seq, x) == Cardinality({k \in 1..Len(seq) : seq[k] = x})

\* the same elements, each as often
SameItems(s, t) ==
  /\ Len(s) = Len(t)
  /\ \A x \in Range(s) \cup Range(t) : Count(s, x) = Count(t, x)

Processed == [k \in 1..Len(claimsLog) |-> claimsLog[k].file]

InExecutor == phase \in {"running", "done"}

\* C1: when a resumed run (not a dry run) has ended, the names its workers
\* processed are the names that were pending when the RunState was loaded,
\* each processed as often as it was pending: none skipped, none twice.
C1_ResumeProcessesPending ==
  (phase = "done" /\ opts.mode = "resume" /\ ~opts.dryRun)
    => SameItems(Processed, atStart[1].files)

\* C2: the membership set that load() rebuilds from the log is the set of
\* the target names ever recorded successful.
C2_LoadRoundTrip == UploadLogLoad(logFile) = recorded

Exclusive(d) ==
  \A n \in Range(d.completed) : \A k \in 1..Len(d.failed) : d.failed[k].file # n

\* C4: no target name is in completed and in failed of the RunState, in
\* memory or on disk.
C4_CompletedFailedExclusive ==
  /\ data # None => Exclusive(data[1])
  /\ progFile # None => Exclusive(progFile[1])

InProgress(c) == claimsLog[c].result = ""

\* C5: of two items of one executor run that carry the same target name, at
\* most one is between its claim and its outcome at a time, and at most one
\* has an upload sequence started.
C5_OneWorkerPerName ==
  \A c1, c2 \in DOMAIN claimsLog :
    (c1 # c2 /\ claimsLog[c1].file = claimsLog[c2].file)
      => /\ ~(InProgress(c1) /\ InProgress(c2))
         /\ ~(claimsLog[c1].started /\ claimsLog[c2].started)

Calls(c) == {k \in DOMAIN claimsLog[c].trace : claimsLog[c].trace[k] \in {"upload", "edit"}}

C6_EveryIndexOnce ==
  /\ \A k \in DOMAIN claimsLog : claimsLog[k].index = k - 1
  /\ phase = "done" =>
       \A i \in 0..(Len(FilesNow) - 1) :
         Cardinality({k \in DOMAIN claimsLog : claimsLog[k].index = i}) = 1

\* C6, in every step of one executor run: the cursor does not go back.
C6_CursorAdvances ==
  (phase = "running" /\ phase' = "running") => nextIndex' >= nextIndex

Present(v) == IF v = None THEN {} ELSE {v[1]}

Least(S) == CHOOSE x \in S : \A y \in S : x <= y

\* the requested concurrency and the configured maximum, as far as they are
\* given; 1 when neither is
Given ==
  IF cReq = None /\ cCfg = None THEN {1} ELSE Present(cReq) \cup Present(cCfg)

Mapped(c) == claimsLog[c].mapped /\ ~claimsLog[c].known

\* the FAILED lines of the items taken whose name the path map does not hold
NotFoundLines ==
  MapSeq(SelectSeq(claimsLog, LAMBDA r : ~r.mapped),
         LAMBDA r : FailedLine(r.file, NotFoundError))

\* both ledgers are what they were when the executor was entered
LedgersUntouched ==
  /\ progFile = atStart[1].prog
  /\ data = Some(atStart[1].data)
  /\ logFile = atStart[1].log
  /\ uploaded = atStart[1].uploaded

\* C8 as stated: in a dry run no item gets an upload or an edit call, both
\* ledgers stay what they were when the executor started, and every item
\* taken is counted as completed.
C8_DryRunTouchesNothing ==
  (InExecutor /\ opts.dryRun)
    => /\ \A c \in DOMAIN claimsLog : ~claimsLog[c].started /\ Calls(c) = {}
       /\ LedgersUntouched
       /\ counts = [completed |-> Len(claimsLog), failed |-> 0, skipped |-> 0]

\* C8, amended: in a dry run no item gets an upload or an edit call and the
\* membership set stays what it was; the log gains a FAILED line for each
\* item whose name the path map does not hold, and nothing else; and while
\* every item taken has its name in the path map and not in the membership
\* set, both ledgers are what they were when the executor started and each
\* item is counted as completed.
C8_DryRunFrame ==
  (InExecutor /\ opts.dryRun)
    => /\ \A c \in DOMAIN claimsLog : ~claimsLog[c].started /\ Calls(c) = {}
       /\ uploaded = atStart[1].uploaded
       /\ logFile = atStart[1].log \o NotFoundLines
       /\ (\A c \in DOMAIN claimsLog : Mapped(c))
            => /\ LedgersUntouched
               /\ counts = [completed |-> Len(claimsLog), failed |-> 0, skipped |-> 0]

\* a dry run over two items or more has ended with nothing touched
C8_Witness ==
  /\ phase = "done"
  /\ opts.dryRun
  /\ Len(claimsLog) >= 2
  /\ \A c \in DOMAIN claimsLog : Mapped(c)
  /\ counts.completed = Len(claimsLog)
  /\ atStart[1].prog # None
  /\ LedgersUntouched

AllSucceeded ==
  \A c \in DOMAIN claimsLog : claimsLog[c].result \in {"completed", "skipped"}

\* C9: a retry-failed run (not a dry run) enters the executor with every
\* failed name in pending, none of them added to a pending list that had it,
\* failed empty, that state on disk, and the failed names as its list; when
\* it has ended and every item succeeded, failed is empty and each of those
\* names is in completed and not in pending.
C9_RetryAdmission ==
  (InExecutor /\ opts.mode = "retry" /\ ~opts.dryRun)
    => LET before == atStart[1].before[1]
           admitted == atStart[1].data
           failedNames == [k \in 1..Len(before.failed) |-> before.failed[k].file]
       IN /\ \A n \in Names :
               Count(admitted.pendingFiles, n) =
                 IF Includes(failedNames, n)
                 THEN Max2(1, Count(before.pendingFiles, n))
                 ELSE Count(before.pendingFiles, n)
          /\ admitted.failed = << >>
          /\ atStart[1].prog = Some(admitted)
          /\ atStart[1].files = failedNames
          /\ (phase = "done" /\ AllSucceeded)
               => /\ data[1].failed = << >>
                  /\ progFile = data
                  /\ \A n \in Range(failedNames) :
                       /\ Includes(data[1].completed, n)
                       /\ ~Includes(data[1].pendingFiles, n)

RECURSIVE Times(_, _)
Times(seq, n) == IF n = 0 THEN << >> ELSE seq \o Times(seq, n - 1)

\* C10: an item whose upload succeeded and whose edit calls all failed has
\* had one successful upload call and no upload call after it, the warning
\* event and no error event, markCompleted and logSuccess and neither
\* markFailed nor logFailed; it is counted as completed, its name is in
\* completed and not in failed, in memory and on disk, and in the membership
\* set, and the log has its SUCCESS line.
C10_PartialSuccess ==
  \A c \in DOMAIN claimsLog :
    Count(claimsLog[c].trace, "editFailed") = Retries
      => /\ claimsLog[c].trace =
              <<"uploading", "upload", "uploaded">>
                \o Times(<<"edit", "editFailed">>, Retries)
                \o <<"warning", "markCompleted", "logSuccess">>
         /\ claimsLog[c].result = "completed"
         /\ counts.completed >= 1
         /\ Includes(data[1].completed, claimsLog[c].file)
         /\ \A k \in 1..Len(data[1].failed) : data[1].failed[k].file # claimsLog[c].file
         /\ progFile = data
         /\ claimsLog[c].file \in uploaded
         /\ Includes(logFile, SuccessLine(claimsLog[c].file, wikiPrefix))

\* an item has just been settled after its last edit attempt failed
C10_Witness ==
  \E c \in DOMAIN claimsLog :
    /\ Count(claimsLog[c].trace, "editFailed") = Retries
    /\ Includes(claimsLog[c].trace, "warning")

\* C11: no item has more than Retries upload calls; an item whose upload
\* failed for good has had exactly Retries upload calls, each failed, then the
\* error event, markFailed and logFailed; the message of the event, the error
\* markFailed stored and the error of the log line are the error of the last
\* attempt, and the attempts stored are Retries.
C11_RetryCeiling ==
  /\ \A w \in Workers : wk[w].attempt <= Retries
  /\ \A c \in DOMAIN claimsLog :
       /\ Count(claimsLog[c].trace, "upload") <= Retries
       /\ (claimsLog[c].started /\ Includes(claimsLog[c].trace, "error"))
            => /\ claimsLog[c].trace =
                    <<"uploading">> \o Times(<<"upload", "uploadFailed">>, Retries)
                      \o <<"error", "markFailed", "logFailed">>
               /\ claimsLog[c].result = "failed"
               /\ claimsLog[c].message = Some(UploadError(Retries))
               /\ Includes(data[1].failed,
                           [file |-> claimsLog[c].file, error |-> UploadError(Retries),
                            attempts |-> Retries])
               /\ progFile = data
               /\ logFile[Len(logFile)] = FailedLine(claimsLog[c].file, UploadError(Retries))

\* an item has just failed for good after its last upload attempt
C11_Witness ==
  \E c \in DOMAIN claimsLog :
    /\ claimsLog[c].started
    /\ claimsLog[c].result = "failed"
    /\ Count(claimsLog[c].trace, "uploadFailed") = Retries

\* C12: after markCompleted(n), markFailed(n, ...), markCompleted(n) in a row,
\* n is in completed once and neither in pendingFiles nor in failed.
C12_CompletedFailedCompleted ==
  \A n \in Names :
    tr[1].calls = <<<<"markCompleted", n>>, <<"markFailed", n>>, <<"markCompleted", n>>>>
      => /\ Count(tr[1].data.completed, n) = 1
         /\ ~Includes(tr[1].data.pendingFiles, n)
         /\ \A k \in 1..Len(tr[1].data.failed) : tr[1].data.failed[k].file # n

\* C13: sanitizing a sanitized name gives it back, and a sanitized name has
\* no reserved character, no whitespace but single spaces between other
\* characters.
C13_SanitizeIdempotent ==
  pf[1].twice # None
    => /\ pf[1].twice = pf[1].once
       /\ \A i \in 1..Len(pf[1].once[1]) :
            /\ pf[1].once[1][i] \notin (Reserved \cup {":", "\t"})
            /\ pf[1].once[1][i] = " "
                 => i > 1 /\ i < Len(pf[1].once[1]) /\ pf[1].once[1][i + 1] # " "

\* a name with a reserved character and a run of whitespace inside has been
\* sanitized twice
C13_Witness ==
  /\ pf[1].twice # None
  /\ pf[1].arg = <<":", " ", "\t", "x">>
  /\ pf[1].once = Some(<<"_", " ", "x">>)

\* C14 as stated: a path of one segment has no second-segment tag, a path of
\* two segments or more has its second segment, case preserved, as the tag.
C14_SecondSegmentFromTwo ==
  pf[1].result # None
    => pf[1].result[1].bookId =
         (IF Len(pf[1].segments) >= 2 THEN Some(pf[1].segments[2]) ELSE None)

\* C14, amended: a path of one or two segments has no second-segment tag; a
\* path of three segments or more has its second segment, case preserved, as
\* the tag, and no segment after the second matters.
C14_SecondSegmentFromThree ==
  pf[1].result # None
    => /\ pf[1].result[1].bookId =
            (IF Len(pf[1].segments) >= 3 THEN Some(pf[1].segments[2]) ELSE None)
       /\ Len(pf[1].segments) >= 3
            => pf[1].result[1] =
                 extractCategories(Join(SubSeq(pf[1].segments, 1, 3)), pf[1].config)

\* the tags of a file in a first-level folder have been derived
C14_Witness ==
  /\ pf[1].result # None
  /\ pf[1].segments = <<<<"S">>, <<"x">>>>
  /\ pf[1].result[1].folderChinese = Some("spells")
  /\ pf[1].result[1].bookId = None

\* C15: with no concurrency requested exactly one worker is started, whatever
\* the configured maximum and the number of items.
C15_DefaultIsSerial == (cWorkers # 0 /\ cReq = None) => cWorkers = 1

\* C16, termination: under SpecLive a running processUploadQueue returns
\* (or the process is killed).
C16_Returns == (phase = "running") ~> (phase # "running")

\* the items taken at index i that ended with a terminal outcome
Outcomes(i) ==
  {c \in 1..Len(claimsLog) :
     claimsLog[c].index = i /\ claimsLog[c].result \in {"completed", "skipped", "failed"}}

\* C16: when processUploadQueue has returned, every item of the list it was
\* given has had exactly one terminal outcome, and completed + skipped +
\* failed of the returned counts is the number of items of that list.
C16_EveryItemOneOutcome ==
  phase = "done"
    => /\ counts.completed + counts.skipped + counts.failed = Len(atStart[1].files)
       /\ \A i \in 0..(Len(atStart[1].files) - 1) : Cardinality(Outcomes(i)) = 1

\* C17: an item one of whose upload calls returned fileexists-no-change has
\* had that call as its last call and no edit call: before it only failed
\* upload calls, fewer than Retries, after it the skip event, markCompleted
\* and logSuccess; it is counted as skipped, its name is in completed, in
\* memory and on disk, and in the membership set, and the log has its SUCCESS
\* line.
C17_NoChangeIsSkipped ==
  \A c \in DOMAIN claimsLog :
    (claimsLog[c].started /\ Includes(claimsLog[c].trace, "skip"))
      => /\ \E failures \in 0..(Retries - 1) :
              claimsLog[c].trace =
                <<"uploading">> \o Times(<<"upload", "uploadFailed">>, failures)
                  \o <<"upload", "skip", "markCompleted", "logSuccess">>
         /\ claimsLog[c].result = "skipped"
         /\ counts.skipped >= 1
         /\ Includes(data[1].completed, claimsLog[c].file)
         /\ progFile = data
         /\ claimsLog[c].file \in uploaded
         /\ Includes(logFile, SuccessLine(claimsLog[c].file, wikiPrefix))

\* an item has just been settled by a content-identical answer to its last
\* upload attempt
C17_Witness ==
  \E c \in DOMAIN claimsLog :
    /\ claimsLog[c].started
    /\ Includes(claimsLog[c].trace, "skip")
    /\ Count(claimsLog[c].trace, "uploadFailed") = Retries - 1

\* C18: an item whose target name the path map does not hold ends as failed
\* with no upload call and no edit call, and is counted as failed; what was
\* done for it is the error event, markFailed and logFailed, once each: the
\* event carries 'Source file not found', the RunState in memory and on disk
\* holds the name in failed with that error and attempts 1, the last line of
\* the log is its FAILED line, and its worker is back at the top of its loop,
\* about to take its next item.
C18_NotFoundFails ==
  \A c \in DOMAIN claimsLog :
    ~claimsLog[c].mapped
      => /\ claimsLog[c].result = "failed"
         /\ ~claimsLog[c].started
         /\ Calls(c) = {}
         /\ counts.failed >= 1
         /\ claimsLog[c].worker # 0
              => /\ claimsLog[c].trace = <<"error", "markFailed", "logFailed">>
                 /\ claimsLog[c].message = Some(NotFoundError)
                 /\ Includes(data[1].failed,
                             [file |-> claimsLog[c].file, error |-> NotFoundError,
                              attempts |-> 1])
                 /\ progFile = data
                 /\ logFile[Len(logFile)] = FailedLine(claimsLog[c].file, NotFoundError)
                 /\ wk[claimsLog[c].worker].pc = "loop"
                 /\ cur = claimsLog[c].worker

\* a worker has taken an item whose source is gone, and after it another item
C18_Witness ==
  \E c1, c2 \in DOMAIN claimsLog :
    /\ c1 < c2
    /\ ~claimsLog[c1].mapped
    /\ claimsLog[c1].result = "failed"
    /\ claimsLog[c2].result # ""

\* C19: the progress file, when there is one, always holds the whole text of
\* the previous state or the whole text of the new state, also when the
\* process is killed inside a save; so a later load never fails to parse it.
C19_NoTornFile ==
  /\ sv[1].disk # None
       => \/ sv[1].disk = sv[1].prev
          \/ sv[1].data # None /\ sv[1].disk = Some(Stringify(sv[1].data[1]))
  /\ sv[1].loaded # Some(<<"SyntaxError">>)

\* C20: every name in the membership set of an UploadLog has its SUCCESS line
\* in the log file, at every point of logSuccess and also after an append
\* that failed.
C20_MembersAreLogged ==
  \A n \in lg[1].uploaded : Includes(lg[1].file, SuccessLine(n, wikiPrefix))

\* C21: logFailed leaves the membership set as it was, and what a later load
\* makes of the log is what it makes of the lines logSuccess wrote: no
\* FAILED line adds a name.
C21_FailureKeepsMembership ==
  /\ lg[1].last = "logFailed" => lg[1].uploaded = lg[1].before
  /\ lg[1].loaded # None => lg[1].loaded[1] = UploadLogLoad(lg[1].successes)

\* C22: when the progress file lacks one of the required fields, main leaves
\* its resume or retry-failed branch as it does when there is no file, with
\* 'Progress file not found', and does not go on to the executor.
C22_PartialIsNotFound ==
  (/\ tr[1].outcome # None
   /\ tr[1].file # None
   /\ RequiredFields \ DOMAIN tr[1].file[1] # {})
    => tr[1].outcome = Some("notFound")

\* C23: a resumed run reads and writes no progress file but the one at the
\* path given to --resume, and the names it hands to the executor are the
\* pending names that file held.
C23_ResumeUsesGivenPath ==
  sv[1].pc # "main"
    => /\ sv[1].reads \subseteq {sv[1].resume}
       /\ sv[1].writes \subseteq {sv[1].resume}
       /\ sv[1].handed # None
            => /\ sv[1].before[sv[1].resume] # None
               /\ sv[1].handed[1] = sv[1].before[sv[1].resume][1].pendingFiles

\* pendingFiles, completed and the files of failed, as one set
NamesOf(d) ==
  Range(d.pendingFiles) \cup Range(d.completed) \cup {d.failed[k].file : k \in 1..Len(d.failed)}

\* the step is tracker.init of a new task: a RunState is written that has
\* everything pending
Created ==
  /\ runs' = runs + 1
  /\ progFile' # progFile
  /\ progFile' = Some(TrackerInit(progFile'[1].pendingFiles))

\* the RunState in memory and the one on disk hold the same names and the same
\* totalFiles
C24_MemoryAsDisk ==
  data # None
    => /\ progFile # None
       /\ NamesOf(data[1]) = NamesOf(progFile[1])
       /\ data[1].totalFiles = progFile[1].totalFiles

\* no step but the creation of a new task changes the set of names of the
\* RunState or its totalFiles
C24_StepKeepsNames ==
  (progFile # None /\ ~Created)
    => /\ progFile' # None
       /\ NamesOf(progFile'[1]) = NamesOf(progFile[1])
       /\ progFile'[1].totalFiles = progFile[1].totalFiles

\* C24: from the creation of a RunState on, in new, resumed and retry-failed
\* runs with any interleaving of the workers, the names in pendingFiles,
\* completed and failed together are the names the RunState was created with,
\* none added and none lost, and totalFiles is what it was at creation.
C24_Conservation == []C24_MemoryAsDisk /\ [][C24_StepKeepsNames]_vars

\* a retry-failed run has ended in which a name went from failed to completed
\* while another name stayed completed from the run before
C24_Witness ==
  /\ phase = "done"
  /\ opts.mode = "retry"
  /\ Len(data[1].completed) >= 2
  /\ \E c \in DOMAIN claimsLog : claimsLog[c].result = "completed"

====
